---- MODULE Spec2Model ----
(***************************************************************************)
(* Stateless chat endpoint of the Taskie backend (phase 3/4):              *)
(* POST /api/{user_id}/chat persists the user message, reconstructs the    *)
(* history from the database, runs the agent, persists the assistant reply *)
(* and returns the conversation.  The database tables (conversations,      *)
(* messages, tool_calls), the module-level agent cache of every server     *)
(* process and the position of every request handler are the state.        *)
(***************************************************************************)
EXTENDS Integers, Sequences, FiniteSets, TLC

\* ---------------------------------------------------------------- bounds
MaxRequests == 2
MaxToolCalls == 1
MaxInserts == 3
MaxTaskWrites == 3
MaxRetriesArg == 2
MaxStoreAdds == 3

\* ------------------------------------------------------ program constants
MAX_HISTORY_MESSAGES == 100
DEFAULT_LIMIT == 100

ToolNames == {"add_task"}
None == "None"
REPLY == "reply"
APOLOGY == "I'm having trouble right now. Please try again."

Requests == 1..MaxRequests

VARIABLES
    conversations,  \* table conversations: id (index) -> [user_id, updated_at]
    messages,       \* table messages: id (index) -> [conversation_id, role, content, created_at]
    tool_calls,     \* table tool_calls: id (index) -> [message_id, tool_name, parameters, result]
    clock,          \* last value read from datetime.now(timezone.utc)
    clock_coarse,   \* whether two readings of the clock in a row can be equal
    last_history,   \* what the last direct call of get_conversation_history returned
    agent_cache,    \* _agent_cache of the server process: "empty" ({}), "agent" or None
    agent_env_ok,   \* whether constructing TodoAgent succeeds at the moment
    requests,       \* the chat handlers: locals and position of every request
    tasks,          \* table tasks: set of rows [id, user_id, title, description, status, priority, created_at, updated_at]
    task_seq,       \* last value of the id sequence of table tasks
    id_reuse,       \* whether the database hands out max(id) + 1 (SQLite rowid) instead of the next sequence value
    deleted,        \* the successful deletes so far: [id, user, at (the clock when the row was deleted)]
    response,       \* the last response of a task endpoint or tool
    recent,         \* the last call of get_recent_context: [conversation, count, context]
    page,           \* the last response of the conversation-history endpoint, and the pages fetched so far
    invocation,     \* the frame of invoke_mcp_tool: its arguments, locals, position and outcome
    store           \* the in-memory TaskStorage: [tasks, next_id], and removed, the ids deleted so far

chatVars == <<conversations, messages, tool_calls, clock, clock_coarse, last_history,
             agent_cache, agent_env_ok, requests>>

taskVars == <<tasks, task_seq, id_reuse, deleted, response>>

\* What the other services of the repository hold or last returned.
auxVars == <<recent, page, invocation, store>>

vars == <<chatVars, taskVars, auxVars>>

Min(a, b) == IF a < b THEN a ELSE b

\* The conversations that exist before any request: a long one owned by u1
\* and an empty one owned by u2.
InitConversations ==
    <<[user_id |-> "u1", created_at |-> 0, updated_at |-> 0],
      [user_id |-> "u2", created_at |-> 0, updated_at |-> 0]>>

ExistingConv == CHOOSE c \in DOMAIN InitConversations : InitConversations[c].user_id = "u1"

\* An id that no conversation has or ever gets.
NoSuchConv == Len(InitConversations) + MaxRequests + 1

\* A conversation of `n` alternating user/assistant messages, one clock tick apart.
Preloaded(n) ==
    [i \in 1..n |-> [conversation_id |-> ExistingConv,
                     role |-> IF i % 2 = 1 THEN "user" ELSE "assistant",
                     content |-> "old",
                     created_at |-> i]]

\* The existing conversation is one message short of the history limit.
PreloadedMessages == MAX_HISTORY_MESSAGES - 1

\* No task request has been answered yet.
NoResponse == [op |-> None]

\* get_recent_context has not been called yet.
NoContext == [conversation |-> 0, count |-> 0, context |-> <<>>]

\* The conversation-history endpoint has not been called yet.
NoPage == [user |-> None, conversation |-> 0, skip |-> 0, limit |-> 0, status |-> 0,
           messages |-> <<>>, got |-> <<>>]

\* invoke_mcp_tool has not been called yet.
NoInvocation ==
    [pc |-> "idle", caller |-> None, user |-> None, title |-> None, retries |-> 0,
     max_retries |-> 0, attempt |-> 0, posts |-> 0, last |-> None, created |-> <<>>,
     result |-> None, raised |-> None]

\* TaskStorage.__init__
NewStorage == [tasks |-> <<>>, next_id |-> 1, removed |-> {}]

\* The state of the other services before any call.
InitAux ==
    /\ recent = NoContext
    /\ page = NoPage
    /\ invocation = NoInvocation
    /\ store = NewStorage

UnusedRequest ==
    [pc |-> "unused", origin |-> 0, user_id |-> None,
     conversation_id |-> 0, message |-> None, agent |-> None,
     conversation |-> 0, user_message |-> 0, formatted_history |-> <<>>,
     agent_state |-> "idle", runner_input |-> <<>>, tools_invoked |-> <<>>,
     agent_response |-> None, tool_calls_data |-> <<>>,
     assistant_message |-> 0, status |-> 0, error_code |-> None,
     response_messages |-> <<>>]

InitTables ==
    /\ conversations = InitConversations
    /\ messages = Preloaded(PreloadedMessages)
    /\ clock = PreloadedMessages
    /\ tool_calls = <<>>
    /\ agent_cache = "empty"
    /\ agent_env_ok \in BOOLEAN
    /\ requests = [r \in Requests |-> UnusedRequest]
    /\ last_history = <<>>
    /\ tasks = {}
    /\ task_seq = 0
    /\ id_reuse = FALSE
    /\ deleted = {}
    /\ response = NoResponse
    /\ InitAux

\* A platform whose clock is finer than the time a database commit takes.
Init == InitTables /\ clock_coarse = FALSE

\* A platform whose clock is coarser (datetime.now() returns equal values).
InitCoarse == InitTables /\ clock_coarse = TRUE

\* ------------------------------------------------------------- database
\* datetime.now(timezone.utc): the wall clock never runs backwards; on a coarse
\* clock two readings in a row may be equal.
NowReadings == IF clock_coarse THEN {clock, clock + 1} ELSE {clock + 1}

\* Variant of get_conversation: the ownership filter is left out.
get_conversation_AnyUser(convs, conversation_id, user_id) ==
    IF conversation_id \in DOMAIN convs THEN conversation_id ELSE 0

get_conversation(convs, conversation_id, user_id) ==
    IF /\ conversation_id \in DOMAIN convs
       /\ (user_id # None => convs[conversation_id].user_id = user_id)
    THEN conversation_id
    ELSE 0

create_conversation(convs, user_id, now) ==
    Append(convs, [user_id |-> user_id, created_at |-> now, updated_at |-> now])

update_conversation_timestamp(convs, conversation_id, now) ==
    IF conversation_id \in DOMAIN convs
    THEN [convs EXCEPT ![conversation_id].updated_at = now]
    ELSE convs

\* list_conversations: WHERE user_id, ORDER BY updated_at DESC, OFFSET skip,
\* LIMIT limit. The possible results, as sequences of conversation ids (rows
\* of equal updated_at come in an order the database chooses).
list_conversations(convs, user_id, skip, limit) ==
    LET own == {c \in DOMAIN convs : convs[c].user_id = user_id}
        sorted == {s \in [1..Cardinality(own) -> own] :
                      /\ \A i, j \in DOMAIN s : i # j => s[i] # s[j]
                      /\ \A i, j \in DOMAIN s :
                            i < j => convs[s[i]].updated_at >= convs[s[j]].updated_at}
    IN  {SubSeq(s, skip + 1, Min(Len(s), skip + limit)) : s \in sorted}

\* The default page size of list_conversations.
CONVERSATIONS_LIMIT == 50

\* Variant of create_message: a write keyed on (conversation, role) that
\* replaces the newest row when it has the same key (a lost update).
create_message_Overwrite(msgs, conversation_id, role, content, now) ==
    LET row == [conversation_id |-> conversation_id, role |-> role,
                content |-> content, created_at |-> now]
    IN  IF /\ Len(msgs) > 0
           /\ msgs[Len(msgs)].conversation_id = conversation_id
           /\ msgs[Len(msgs)].role = role
        THEN [msgs EXCEPT ![Len(msgs)] = row]
        ELSE Append(msgs, row)

create_message(msgs, conversation_id, role, content, now) ==
    Append(msgs, [conversation_id |-> conversation_id, role |-> role,
                  content |-> content, created_at |-> now])

create_tool_call(tcs, message_id, tool_name, parameters, result) ==
    Append(tcs, [message_id |-> message_id, tool_name |-> tool_name,
                 parameters |-> parameters, result |-> result])

\* update_tool_call_result: sets the result of the row with that id, whatever
\* it held; no row with that id: nothing changes.
update_tool_call_result(tcs, tool_call_id, result) ==
    IF tool_call_id \in DOMAIN tcs
    THEN [tcs EXCEPT ![tool_call_id].result = result]
    ELSE tcs

\* Variant of RowsOf: the WHERE clause on conversation_id is left out.
RowsOf_AllConversations(msgs, conversation_id) ==
    [i \in 1..Len(msgs) |-> i]

\* Ids of the rows of one conversation, in primary-key order.
RowsOf(msgs, conversation_id) ==
    SelectSeq([i \in 1..Len(msgs) |-> i],
              LAMBDA i : msgs[i].conversation_id = conversation_id)

\* ORDER BY created_at ASC.  Rows are inserted with non-decreasing created_at,
\* so primary-key order is one sorted order; the database may return rows of
\* equal created_at in any order.
OrderByCreatedAt(msgs, rows) ==
    LET n == Len(rows)
        ts(i) == msgs[rows[i]].created_at
        tied == {i \in 1..n : \/ (i > 1 /\ ts(i - 1) = ts(i))
                              \/ (i < n /\ ts(i + 1) = ts(i))}
        perms == {p \in Permutations(tied) : \A i \in tied : ts(p[i]) = ts(i)}
    IN  {[i \in 1..n |-> IF i \in tied THEN rows[p[i]] ELSE rows[i]] : p \in perms}

Limit(seq, limit) == SubSeq(seq, 1, Min(limit, Len(seq)))

\* The possible results of the query (sequences of message ids).
get_conversation_history(msgs, conversation_id, limit) ==
    {Limit(h, limit) : h \in OrderByCreatedAt(msgs, RowsOf(msgs, conversation_id))}

ToolCallsOf(tcs, message_id) ==
    SelectSeq(tcs, LAMBDA tc : tc.message_id = message_id)

get_conversation_messages_with_relationships(msgs, tcs, conversation_id, limit) ==
    {[i \in 1..Len(h) |-> [id |-> h[i], role |-> msgs[h[i]].role,
                           content |-> msgs[h[i]].content,
                           created_at |-> msgs[h[i]].created_at,
                           tool_calls |-> ToolCallsOf(tcs, h[i])]]
        : h \in get_conversation_history(msgs, conversation_id, limit)}

\* ---------------------------------------------------- ConversationService
reconstruct_conversation_history(msgs, conversation_id) ==
    get_conversation_history(msgs, conversation_id, MAX_HISTORY_MESSAGES)

\* HistoryService.format_for_agent: role and content of each message.
format_for_agent(msgs, history) ==
    [i \in 1..Len(history) |-> [role |-> msgs[history[i]].role,
                                content |-> msgs[history[i]].content]]

\* HistoryService.get_recent_context: get_conversation_history with
\* limit = recent_messages_count, formatted. The possible results.
get_recent_context(msgs, conversation_id, recent_messages_count) ==
    {format_for_agent(msgs, h) :
        h \in get_conversation_history(msgs, conversation_id, recent_messages_count)}

format_history_for_agent(msgs, history) ==
    [i \in 1..Len(history) |-> [role |-> msgs[history[i]].role,
                                content |-> msgs[history[i]].content]]

get_full_conversation_response(msgs, tcs, conversation_id) ==
    get_conversation_messages_with_relationships(msgs, tcs, conversation_id, DEFAULT_LIMIT)

\* ------------------------------------------------------------ agent cache
\* _get_agent(): the cached entry if the key is present (also when it holds
\* None), otherwise construct the agent and cache the outcome.
\* Result: <<agent handed to the caller, new cache>>.
_get_agent(cache, env_ok) ==
    IF cache # "empty" THEN <<cache, cache>>
    ELSE IF env_ok THEN <<"agent", "agent">>
    ELSE <<None, None>>

\* ------------------------------------------------------------ the agent
\* TodoAgent.process_message(message, history, user_id=, conversation_id=):
\* the run is started on `message` alone; `history` is accepted and not used.
RunnerInput(message, history) == <<[role |-> "user", content |-> message]>>

\* What process_message returns: result.final_output, or the apology string of
\* its except branch.  Always a str, never a dict.
AgentOutputs == {REPLY, APOLOGY}

\* chat(): content and tool calls taken from the agent's response.
ResponseContent(agent_response) ==
    IF agent_response.is_dict THEN agent_response.content ELSE agent_response.str

ResponseToolCalls(agent_response) ==
    IF agent_response.is_dict THEN agent_response.tool_calls ELSE <<>>

\* ------------------------------------------------------------- requests
InFlight(r) == requests[r].pc \notin {"unused", "done", "crashed"}

\* The handler returns or raises HTTPException: the response is sent and the
\* history it held is dropped with its frame.
Finish(q, status, error_code) ==
    [q EXCEPT !.pc = "done", !.status = status, !.error_code = error_code,
              !.formatted_history = <<>>]

\* chat(), lines 124-162: _get_agent() and get_or_create_conversation().
\* `o` is the client request this one repeats (r itself for a first send).
StartHandler(r, u, cid, m, o) ==
    /\ requests[r].pc = "unused"
    /\ \A k \in 1..(r - 1) : requests[k].pc # "unused"
    /\ LET ga == _get_agent(agent_cache, agent_env_ok)
           q0 == [requests[r] EXCEPT !.origin = o, !.user_id = u,
                                     !.conversation_id = cid, !.message = m,
                                     !.agent = ga[1]]
       IN  /\ agent_cache' = ga[2]
           /\ IF cid # 0
              THEN /\ UNCHANGED <<conversations, clock>>
                   /\ IF get_conversation(conversations, cid, u) = 0
                      THEN requests' = [requests EXCEPT ![r] =
                               Finish(q0, 404, "CONVERSATION_NOT_FOUND")]
                      ELSE requests' = [requests EXCEPT ![r] =
                               [q0 EXCEPT !.pc = "persist_user", !.conversation = cid]]
              ELSE \E now \in NowReadings :
                   /\ clock' = now
                   /\ conversations' = create_conversation(conversations, u, now)
                   /\ requests' = [requests EXCEPT ![r] =
                          [q0 EXCEPT !.pc = "persist_user",
                                     !.conversation = Len(conversations) + 1]]
    /\ UNCHANGED <<auxVars, taskVars, messages, tool_calls, agent_env_ok, clock_coarse, last_history>>

\* The text of the message of client request o.
MessageOf(o) == "msg" \o ToString(o)

\* A client sends POST /api/{user_id}/chat.
Chat(r, u, cid) == StartHandler(r, u, cid, MessageOf(r), r)

\* The client of a request whose server crashed sends the same request again.
Resend(r, r0) ==
    /\ requests[r0].pc = "crashed"
    /\ \A k \in Requests : requests[k].origin = requests[r0].origin => ~InFlight(k)
    /\ StartHandler(r, requests[r0].user_id, requests[r0].conversation_id,
                    requests[r0].message, requests[r0].origin)

\* Variant of PersistUserMessage: the handler goes on without having stored
\* the user message (it is written only once the agent has answered).
PersistUserMessage_Deferred(r) ==
    /\ requests[r].pc = "persist_user"
    /\ requests' = [requests EXCEPT ![r].pc = "reconstruct"]
    /\ UNCHANGED <<auxVars, taskVars, conversations, messages, tool_calls, clock, clock_coarse,
                   last_history, agent_cache, agent_env_ok>>

\* chat(), lines 164-170: persist the user message.
PersistUserMessage(r) ==
    /\ requests[r].pc = "persist_user"
    /\ \E now \in NowReadings :
        /\ clock' = now
        /\ messages' = create_message(messages, requests[r].conversation, "user",
                                      requests[r].message, now)
    /\ requests' = [requests EXCEPT ![r].pc = "reconstruct",
                                    ![r].user_message = Len(messages')]
    /\ UNCHANGED <<auxVars, taskVars, conversations, tool_calls, agent_cache, agent_env_ok, clock_coarse, last_history>>

\* chat(), lines 172-207: reconstruct the history, refuse when there is no
\* agent, otherwise start agent.process_message in a worker thread.
ReconstructAndInvoke(r) ==
    /\ requests[r].pc = "reconstruct"
    /\ \E history \in reconstruct_conversation_history(messages, requests[r].conversation) :
        LET formatted == format_history_for_agent(messages, history)
        IN  IF requests[r].agent = None
            THEN requests' = [requests EXCEPT ![r] =
                     Finish(@, 500, "AGENT_UNAVAILABLE")]
            ELSE requests' = [requests EXCEPT ![r] =
                     [@ EXCEPT !.pc = "await_agent",
                               !.formatted_history = formatted,
                               !.agent_state = "running",
                               !.runner_input = RunnerInput(requests[r].message, formatted)]]
    /\ UNCHANGED <<auxVars, taskVars, conversations, messages, tool_calls, clock, agent_cache, agent_env_ok, clock_coarse, last_history>>

\* The running agent invokes one of its tools.
AgentToolCall(r, t) ==
    /\ requests[r].agent_state = "running"
    /\ Len(requests[r].tools_invoked) < MaxToolCalls
    /\ requests' = [requests EXCEPT ![r].tools_invoked =
           Append(@, [tool_name |-> t, parameters |-> "args", result |-> "ok"])]
    /\ UNCHANGED <<auxVars, taskVars, conversations, messages, tool_calls, clock, agent_cache, agent_env_ok, clock_coarse, last_history>>

\* process_message returns; a handler still waiting in wait_for resumes
\* (lines 211-254), a handler that timed out no longer takes the result.
AgentReturn(r, out) ==
    /\ requests[r].agent_state = "running"
    /\ LET resp == [is_dict |-> FALSE, str |-> out]
       IN  requests' = [requests EXCEPT ![r] =
               IF @.pc = "await_agent"
               THEN [@ EXCEPT !.agent_state = "returned",
                              !.pc = "persist_assistant",
                              !.agent_response = ResponseContent(resp),
                              !.tool_calls_data = ResponseToolCalls(resp)]
               ELSE [@ EXCEPT !.agent_state = "returned"]]
    /\ UNCHANGED <<auxVars, taskVars, conversations, messages, tool_calls, clock, agent_cache, agent_env_ok, clock_coarse, last_history>>

\* Variant of AgentTimeout: the failing handler takes the user message back
\* out of the conversation (a rollback of the whole request).
AgentTimeout_Rollback(r) ==
    /\ requests[r].pc = "await_agent"
    /\ requests' = [requests EXCEPT ![r] = Finish(@, 408, "AGENT_TIMEOUT")]
    /\ messages' = SelectSeq(messages,
                       LAMBDA m : ~(m.conversation_id = requests[r].conversation
                                    /\ m.content = requests[r].message))
    /\ UNCHANGED <<auxVars, taskVars, conversations, tool_calls, clock, clock_coarse, last_history,
                   agent_cache, agent_env_ok>>

\* chat(), lines 218-230: wait_for gives up after AGENT_TIMEOUT seconds; the
\* worker thread is not stopped.
AgentTimeout(r) ==
    /\ requests[r].pc = "await_agent"
    /\ requests' = [requests EXCEPT ![r] = Finish(@, 408, "AGENT_TIMEOUT")]
    /\ UNCHANGED <<auxVars, taskVars, conversations, messages, tool_calls, clock, agent_cache, agent_env_ok, clock_coarse, last_history>>

\* chat(), lines 231-243: awaiting the agent task raises.
AgentRaise(r) ==
    /\ requests[r].pc = "await_agent"
    /\ requests[r].agent_state = "running"
    /\ requests' = [requests EXCEPT ![r] =
           Finish([@ EXCEPT !.agent_state = "raised"], 500, "AGENT_ERROR")]
    /\ UNCHANGED <<auxVars, taskVars, conversations, messages, tool_calls, clock, agent_cache, agent_env_ok, clock_coarse, last_history>>

RECURSIVE CreateToolCalls(_, _, _)
CreateToolCalls(tcs, message_id, data) ==
    IF data = <<>> THEN tcs
    ELSE CreateToolCalls(create_tool_call(tcs, message_id, Head(data).tool_name,
                                          Head(data).parameters, Head(data).result),
                         message_id, Tail(data))

\* Variant of persist_assistant_response: the tool calls are logged but the
\* assistant message itself is not stored.
persist_assistant_response_NoMessage(msgs, tcs, conversation_id, agent_response, tool_calls_data, now) ==
    <<msgs, CreateToolCalls(tcs, Len(msgs), tool_calls_data)>>

\* ConversationService.persist_assistant_response: the assistant message and
\* one tool_calls row per entry of tool_calls_data.
persist_assistant_response(msgs, tcs, conversation_id, agent_response, tool_calls_data, now) ==
    <<create_message(msgs, conversation_id, "assistant", agent_response, now),
      CreateToolCalls(tcs, Len(msgs) + 1, tool_calls_data)>>

\* chat(), lines 256-263.
PersistAssistantResponse(r) ==
    /\ requests[r].pc = "persist_assistant"
    /\ \E now \in NowReadings :
        LET res == persist_assistant_response(messages, tool_calls,
                       requests[r].conversation, requests[r].agent_response,
                       requests[r].tool_calls_data, now)
        IN  /\ clock' = now
            /\ messages' = res[1]
            /\ tool_calls' = res[2]
    /\ requests' = [requests EXCEPT ![r].pc = "update_activity",
                                    ![r].assistant_message = Len(messages')]
    /\ UNCHANGED <<auxVars, taskVars, conversations, agent_cache, agent_env_ok, clock_coarse, last_history>>

\* chat(), lines 265-266.
UpdateConversationActivity(r) ==
    /\ requests[r].pc = "update_activity"
    /\ \E now \in NowReadings :
        /\ clock' = now
        /\ conversations' = update_conversation_timestamp(conversations,
                                requests[r].conversation, now)
    /\ requests' = [requests EXCEPT ![r].pc = "respond"]
    /\ UNCHANGED <<auxVars, taskVars, messages, tool_calls, agent_cache, agent_env_ok, clock_coarse, last_history>>

\* chat(), lines 268-285.
Respond(r) ==
    /\ requests[r].pc = "respond"
    /\ \E resp \in get_full_conversation_response(messages, tool_calls,
                                                  requests[r].conversation) :
        requests' = [requests EXCEPT ![r] =
            Finish([@ EXCEPT !.response_messages = resp], 200, None)]
    /\ UNCHANGED <<auxVars, taskVars, conversations, messages, tool_calls, clock, agent_cache, agent_env_ok, clock_coarse, last_history>>

\* The server process dies and is started again: its handlers and agent threads
\* are gone and its module globals are fresh.
Crash ==
    /\ \E r \in Requests : InFlight(r)
    /\ requests' = [r \in Requests |->
           IF InFlight(r) \/ requests[r].agent_state = "running"
           THEN [requests[r] EXCEPT !.pc = IF InFlight(r) THEN "crashed" ELSE @,
                                    !.agent_state = IF @ = "running" THEN "dead" ELSE @]
           ELSE requests[r]]
    /\ agent_cache' = "empty"
    /\ UNCHANGED <<auxVars, taskVars, conversations, messages, tool_calls, clock, agent_env_ok, clock_coarse, last_history>>

\* The cause of an agent initialisation failure (configuration, API key,
\* import error) is removed.
AgentEnvRepaired ==
    /\ ~agent_env_ok
    /\ agent_env_ok' = TRUE
    /\ UNCHANGED <<auxVars, taskVars, conversations, messages, tool_calls, clock, agent_cache, requests, clock_coarse, last_history>>

\* (user_id, conversation_id) of a request; conversation_id 0 stands for None.
ChatInputs == {<<"u1", ExistingConv>>, <<"u1", 0>>, <<"u2", ExistingConv>>, <<"u1", NoSuchConv>>}

\* The chat endpoint under concurrent requests.
Next ==
    \/ \E r \in Requests, i \in ChatInputs : Chat(r, i[1], i[2])
    \/ \E r \in Requests : PersistUserMessage(r)
    \/ \E r \in Requests : ReconstructAndInvoke(r)
    \/ \E r \in Requests, t \in ToolNames : AgentToolCall(r, t)
    \/ \E r \in Requests, out \in AgentOutputs : AgentReturn(r, out)
    \/ \E r \in Requests : AgentTimeout(r)
    \/ \E r \in Requests : AgentRaise(r)
    \/ \E r \in Requests : PersistAssistantResponse(r)
    \/ \E r \in Requests : UpdateConversationActivity(r)
    \/ \E r \in Requests : Respond(r)

Spec == Init /\ [][Next]_vars

\* The same with server restarts, resent requests and a changing environment.
NextCrash ==
    \/ Next
    \/ \E r \in Requests, r0 \in Requests : Resend(r, r0)
    \/ Crash
    \/ AgentEnvRepaired

SpecCrash == Init /\ [][NextCrash]_vars

\* ------------------------------------------------- the database layer alone
\* create_message called directly, as the history tests and services do.
InsertMessage(c, role) ==
    /\ Len(messages) < PreloadedMessages + MaxInserts
    /\ \E now \in NowReadings :
        /\ clock' = now
        /\ messages' = create_message(messages, c, role, "row" \o ToString(Len(messages) + 1), now)
    /\ UNCHANGED <<auxVars, taskVars, conversations, tool_calls, clock_coarse, last_history,
                   agent_cache, agent_env_ok, requests>>

\* HistoryService.get_conversation_history(conversation_id) with the default limit.
ReadHistory(c) ==
    /\ last_history' \in get_conversation_history(messages, c, MAX_HISTORY_MESSAGES)
    /\ UNCHANGED <<auxVars, taskVars, conversations, messages, tool_calls, clock, clock_coarse,
                   agent_cache, agent_env_ok, requests>>

\* The default of recent_messages_count.
RECENT_MESSAGES_COUNT == 10

\* The counts with which get_recent_context is called.
RecentCounts == {2, RECENT_MESSAGES_COUNT}

\* HistoryService.get_recent_context(conversation_id, recent_messages_count).
GetRecentContext(c, n) ==
    /\ \E context \in get_recent_context(messages, c, n) :
          recent' = [conversation |-> c, count |-> n, context |-> context]
    /\ UNCHANGED <<taskVars, chatVars, page, invocation, store>>

NextHistory ==
    \/ \E c \in DOMAIN conversations, role \in {"user", "assistant"} : InsertMessage(c, role)
    \/ \E c \in DOMAIN conversations : ReadHistory(c)
    \/ \E c \in DOMAIN conversations, n \in RecentCounts : GetRecentContext(c, n)

SpecHistory == InitCoarse /\ [][NextHistory]_vars

\* ---------------------------------------------- the tool_calls table alone
ToolResults == {None, "ok", "error"}

\* create_tool_call called directly on an assistant message of the conversation.
CreateToolCall(message_id, t, result) ==
    /\ Len(tool_calls) < MaxInserts
    /\ tool_calls' = create_tool_call(tool_calls, message_id, t, "args", result)
    /\ UNCHANGED <<auxVars, taskVars, conversations, messages, clock, clock_coarse, last_history,
                   agent_cache, agent_env_ok, requests>>

\* update_tool_call_result called directly.
UpdateToolCallResult(tool_call_id, result) ==
    /\ tool_calls' = update_tool_call_result(tool_calls, tool_call_id, result)
    /\ UNCHANGED <<auxVars, taskVars, conversations, messages, clock, clock_coarse, last_history,
                   agent_cache, agent_env_ok, requests>>

NextToolCalls ==
    \/ \E m \in {i \in 1..4 : messages[i].role = "assistant"}, t \in ToolNames, res \in ToolResults :
            CreateToolCall(m, t, res)
    \/ \E id \in 1..(MaxInserts + 1), res \in ToolResults \ {None} :
            UpdateToolCallResult(id, res)

SpecToolCalls == Init /\ [][NextToolCalls]_vars

\* ------------------------------------------------------- authentication
Users == {"u1", "u2"}

\* BETTER_AUTH_SECRET of this deployment.
SECRET == "secret"

\* A point in time later than every reading of the clock in a behaviour.
Future == PreloadedMessages + MaxTaskWrites + 3 * MaxRequests + 1

\* A JWT as what jwt.decode sees of it: the key that signed it and its payload
\* (an absent claim is None).
Jwt(key, has_exp, exp, sub, user_id) ==
    [kind |-> "jwt", key |-> key, has_exp |-> has_exp, exp |-> exp,
     sub |-> sub, user_id |-> user_id]

ValidToken(u) == Jwt(SECRET, TRUE, Future, u, u)
Garbage == [kind |-> "garbage"]

Tokens ==
    {ValidToken(u) : u \in Users}
    \cup {Garbage,
          Jwt("other secret", TRUE, Future, "u1", "u1"),
          Jwt(SECRET, TRUE, 0, "u1", "u1"),
          Jwt(SECRET, TRUE, Future, None, "u1"),
          Jwt(SECRET, TRUE, Future, "", None)}

\* The Authorization header after authorization.split(); <<>> is a missing or
\* empty header.
Headers ==
    {<<>>, <<"Bearer">>, <<"Basic", ValidToken("u1")>>, <<"Bearer", ValidToken("u1"), "x">>}
    \cup {<<"Bearer", t>> : t \in Tokens}

\* The headers of clients that hold a valid token.
OwnHeaders == {<<"Bearer", ValidToken(u)>> : u \in Users}

NoClaims == [kind |-> "none"]

\* verify_jwt_signature: jwt.decode with verify_signature, verify_exp and
\* require ["sub"]; every failure gives None.
verify_jwt_signature(token, now) ==
    IF token.kind # "jwt" THEN NoClaims
    ELSE IF token.key # SECRET THEN NoClaims
    ELSE IF token.has_exp /\ token.exp <= now THEN NoClaims
    ELSE IF token.sub = None THEN NoClaims
    ELSE [kind |-> "claims", sub |-> token.sub, user_id |-> token.user_id]

Falsy(v) == v = None \/ v = ""

\* AuthenticatedUser.from_jwt_claims: claims.get("sub") or claims.get("user_id");
\* None stands for the ValueError.
from_jwt_claims(claims) ==
    LET user_id == IF Falsy(claims.sub) THEN claims.user_id ELSE claims.sub
    IN  IF Falsy(user_id) THEN None ELSE user_id

Lower(word) == IF word = "Bearer" THEN "bearer" ELSE IF word = "Basic" THEN "basic" ELSE word

\* Variant of get_current_user: the token's payload is trusted unverified.
get_current_user_Unverified(authorization, now) ==
    IF Len(authorization) = 2 /\ authorization[2].kind = "jwt" /\ ~Falsy(authorization[2].sub)
    THEN <<0, authorization[2].sub>>
    ELSE <<401, None>>

\* get_current_user: <<0, user id>> or <<401, None>>.
get_current_user(authorization, now) ==
    IF authorization = <<>> THEN <<401, None>>
    ELSE IF Len(authorization) # 2 \/ Lower(authorization[1]) # "bearer" THEN <<401, None>>
    ELSE LET claims == verify_jwt_signature(authorization[2], now)
         IN  IF claims = NoClaims THEN <<401, None>>
             ELSE IF from_jwt_claims(claims) = None THEN <<401, None>>
             ELSE <<0, from_jwt_claims(claims)>>

\* verify_path_user_id: get_current_user first, then 403 unless the token's
\* user is the user of the path.
verify_path_user_id(user_id, authorization, now) ==
    LET cu == get_current_user(authorization, now)
    IN  IF cu[1] # 0 THEN cu
        ELSE IF cu[2] # user_id THEN <<403, cu[2]>>
        ELSE cu

\* ------------------------------------------------------------ TaskService
\* What a lookup that finds no row returns (None).
NoTask == [id |-> 0]

Max(S) == IF S = {} THEN 0 ELSE CHOOSE x \in S : \A y \in S : y <= x

\* The id the database gives a new row of tasks: the next value of the
\* sequence (PostgreSQL), or one more than the largest id in the table
\* (SQLite's rowid).
NextTaskId(tbl, seq, reuse) ==
    IF reuse THEN Max({t.id : t \in tbl}) + 1 ELSE seq + 1

\* Variant of get_task_by_id: the row is looked up by id alone.
get_task_by_id_AnyUser(tbl, task_id, user_id) ==
    IF \E t \in tbl : t.id = task_id
    THEN CHOOSE t \in tbl : t.id = task_id
    ELSE NoTask

get_task_by_id(tbl, task_id, user_id) ==
    IF \E t \in tbl : t.id = task_id /\ t.user_id = user_id
    THEN CHOOSE t \in tbl : t.id = task_id /\ t.user_id = user_id
    ELSE NoTask

\* TaskService.create_task: <<table, new task>>.
create_task(tbl, id, user_id, title, description, priority, now) ==
    LET task == [id |-> id, user_id |-> user_id, title |-> title,
                 description |-> description, status |-> "incomplete",
                 priority |-> IF priority = None THEN "medium" ELSE priority,
                 created_at |-> now, updated_at |-> now]
    IN  <<tbl \cup {task}, task>>

\* Writes a changed row back.
Commit(tbl, old, new) == (tbl \ {old}) \cup {new}

\* Variant of update_task: the row is rebuilt from the request, so its status
\* falls back to the default.
update_task_ResetsStatus(tbl, task_id, user_id, title, description, priority, now) ==
    LET task == get_task_by_id(tbl, task_id, user_id)
        new == [task EXCEPT !.title = IF title # None THEN title ELSE @,
                            !.description = IF description # None THEN description ELSE @,
                            !.priority = IF priority # None THEN priority ELSE @,
                            !.status = "incomplete",
                            !.updated_at = now]
    IN  IF task = NoTask THEN <<tbl, NoTask>> ELSE <<Commit(tbl, task, new), new>>

\* TaskService.update_task: <<table, updated task or NoTask>>.
update_task(tbl, task_id, user_id, title, description, priority, now) ==
    LET task == get_task_by_id(tbl, task_id, user_id)
        new == [task EXCEPT !.title = IF title # None THEN title ELSE @,
                            !.description = IF description # None THEN description ELSE @,
                            !.priority = IF priority # None THEN priority ELSE @,
                            !.updated_at = now]
    IN  IF task = NoTask THEN <<tbl, NoTask>> ELSE <<Commit(tbl, task, new), new>>

\* Variant of delete_task: the row is reported deleted and kept.
delete_task_KeepsRow(tbl, task_id, user_id) ==
    LET task == get_task_by_id(tbl, task_id, user_id)
    IN  IF task = NoTask THEN <<tbl, FALSE>> ELSE <<tbl, TRUE>>

\* TaskService.delete_task: <<table, deleted?>>.
delete_task(tbl, task_id, user_id) ==
    LET task == get_task_by_id(tbl, task_id, user_id)
    IN  IF task = NoTask THEN <<tbl, FALSE>> ELSE <<tbl \ {task}, TRUE>>

\* Variant of mark_complete: a task that is complete already is refused.
mark_complete_Once(tbl, task_id, user_id, now) ==
    LET task == get_task_by_id(tbl, task_id, user_id)
        new == [task EXCEPT !.status = "complete", !.updated_at = now]
    IN  IF task = NoTask \/ task.status = "complete"
        THEN <<tbl, NoTask>>
        ELSE <<Commit(tbl, task, new), new>>

\* TaskService.mark_complete: <<table, updated task or NoTask>>.
mark_complete(tbl, task_id, user_id, now) ==
    LET task == get_task_by_id(tbl, task_id, user_id)
        new == [task EXCEPT !.status = "complete", !.updated_at = now]
    IN  IF task = NoTask THEN <<tbl, NoTask>> ELSE <<Commit(tbl, task, new), new>>

\* TaskService.mark_incomplete.
mark_incomplete(tbl, task_id, user_id, now) ==
    LET task == get_task_by_id(tbl, task_id, user_id)
        new == [task EXCEPT !.status = "incomplete", !.updated_at = now]
    IN  IF task = NoTask THEN <<tbl, NoTask>> ELSE <<Commit(tbl, task, new), new>>

priority_order(p) ==
    IF p = "high" THEN 3 ELSE IF p = "low" THEN 1 ELSE 2

\* The sort key of get_tasks_for_user, as a pair compared lexicographically.
SortKey(t, sort) ==
    IF sort = "priority" THEN <<0 - priority_order(t.priority), 0 - t.created_at>>
    ELSE <<0 - t.created_at, 0>>

KeyLeq(a, b) == a[1] < b[1] \/ (a[1] = b[1] /\ a[2] <= b[2])

\* Variant of get_tasks_for_user: the filter on the owner is left out.
get_tasks_for_user_AllUsers(tbl, user_id, status, sort) ==
    LET sel == {t \in tbl : status # None => t.status = status}
    IN  {s \in [1..Cardinality(sel) -> sel] :
            /\ \A i, j \in DOMAIN s : i # j => s[i] # s[j]
            /\ \A i, j \in DOMAIN s : i < j => KeyLeq(SortKey(s[i], sort), SortKey(s[j], sort))}

\* TaskService.get_tasks_for_user: the possible results (rows of equal key
\* keep the order in which the query returned them, which is not specified).
get_tasks_for_user(tbl, user_id, status, sort) ==
    LET sel == {t \in tbl : t.user_id = user_id /\ (status # None => t.status = status)}
    IN  {s \in [1..Cardinality(sel) -> sel] :
            /\ \A i, j \in DOMAIN s : i # j => s[i] # s[j]
            /\ \A i, j \in DOMAIN s : i < j => KeyLeq(SortKey(s[i], sort), SortKey(s[j], sort))}

\* ------------------------------------------- task endpoints (api/tasks.py)
\* The ids of requests on single tasks: a task that can still be changed
\* within the bound on writes has one of these.
TaskIds == 1..(MaxTaskWrites - 1)

\* The fields (title, description, priority) of a request that supplies none.
NoArgs == <<None, None, None>>

\* A response: the request it answers (operation, interface, Authorization
\* header, user of the path or body, task id, and in args the fields of an
\* update), the user the token was verified for, the HTTP status, and the task
\* or the list returned.
Resp(op, via, header, user, caller, id, status, result, task, listed) ==
    [op |-> op, via |-> via, header |-> header, user |-> user, caller |-> caller,
     id |-> id, status |-> status, result |-> result, task |-> task, listed |-> listed,
     args |-> NoArgs]

\* The dependency verify_path_user_id raised: the handler does not run.
Rejected(op, h, u, auth) ==
    /\ response' = Resp(op, "rest", h, u, auth[2], 0, auth[1],
                        IF auth[1] = 401 THEN "unauthorized" ELSE "forbidden", NoTask, <<>>)
    /\ UNCHANGED <<tasks, task_seq, id_reuse, deleted, chatVars, auxVars>>

\* The times at which a service method called now can read the clock, and
\* the time of the last reading.
Readings == NowReadings \cup {clock}

\* A handler that changes a task through a service method, res[now] being what
\* the method returns when it reads the time now: no such task of the user,
\* and it answers not found without reading the clock or writing; otherwise
\* one reading of the clock and one commit.
Write(op, via, h, u, caller, id, args, found_status, missing_status, res) ==
    IF res[clock][2] = NoTask
    THEN /\ response' = [Resp(op, via, h, u, caller, id, missing_status, "not_found", NoTask, <<>>)
                            EXCEPT !.args = args]
         /\ UNCHANGED <<tasks, task_seq, id_reuse, deleted, chatVars, auxVars>>
    ELSE /\ clock < MaxTaskWrites
         /\ \E now \in NowReadings :
              /\ clock' = now
              /\ tasks' = res[now][1]
              /\ response' = [Resp(op, via, h, u, caller, id, found_status, "ok", res[now][2], <<>>)
                                 EXCEPT !.args = args]
         /\ UNCHANGED <<auxVars, task_seq, id_reuse, deleted, conversations, messages, tool_calls, clock_coarse,
                        last_history, agent_cache, agent_env_ok, requests>>

\* POST /api/{user_id}/tasks
CreateTask(h, u, title) ==
    LET auth == verify_path_user_id(u, h, clock)
    IN  IF auth[1] # 0 THEN Rejected("create", h, u, auth)
        ELSE IF title = ""
        THEN /\ response' = Resp("create", "rest", h, u, auth[2], 0, 400, "validation_error", NoTask, <<>>)
             /\ UNCHANGED <<tasks, task_seq, id_reuse, deleted, chatVars, auxVars>>
        ELSE /\ clock < MaxTaskWrites
             /\ \E now \in NowReadings :
                  LET id == NextTaskId(tasks, task_seq, id_reuse)
                      res == create_task(tasks, id, u, title, None, None, now)
                  IN  /\ clock' = now
                      /\ tasks' = res[1]
                      /\ task_seq' = task_seq + 1
                      /\ response' = Resp("create", "rest", h, u, auth[2], id, 201, "ok", res[2], <<>>)
             /\ UNCHANGED <<auxVars, id_reuse, deleted, conversations, messages, tool_calls, clock_coarse,
                            last_history, agent_cache, agent_env_ok, requests>>

\* GET /api/{user_id}/tasks
ListTasks(h, u) ==
    LET auth == verify_path_user_id(u, h, clock)
    IN  IF auth[1] # 0 THEN Rejected("list", h, u, auth)
        ELSE /\ \E listed \in get_tasks_for_user(tasks, u, None, None) :
                  response' = Resp("list", "rest", h, u, auth[2], 0, 200, "ok", NoTask, listed)
             /\ UNCHANGED <<tasks, task_seq, id_reuse, deleted, chatVars, auxVars>>

\* GET /api/{user_id}/tasks/{id}
GetTask(h, u, id) ==
    LET auth == verify_path_user_id(u, h, clock)
        task == get_task_by_id(tasks, id, u)
    IN  IF auth[1] # 0 THEN Rejected("get", h, u, auth)
        ELSE /\ response' = Resp("get", "rest", h, u, auth[2], id,
                                 IF task = NoTask THEN 404 ELSE 200,
                                 IF task = NoTask THEN "not_found" ELSE "ok", task, <<>>)
             /\ UNCHANGED <<tasks, task_seq, id_reuse, deleted, chatVars, auxVars>>

\* PUT /api/{user_id}/tasks/{id}
UpdateTask(h, u, id, title, description, priority) ==
    LET auth == verify_path_user_id(u, h, clock)
    IN  IF auth[1] # 0 THEN Rejected("update", h, u, auth)
        ELSE IF title = None /\ description = None /\ priority = None
        THEN /\ response' = Resp("update", "rest", h, u, auth[2], id, 400, "validation_error", NoTask, <<>>)
             /\ UNCHANGED <<tasks, task_seq, id_reuse, deleted, chatVars, auxVars>>
        ELSE Write("update", "rest", h, u, auth[2], id, <<title, description, priority>>, 200, 404,
                   [now \in Readings |-> update_task(tasks, id, u, title, description, priority, now)])

\* DELETE /api/{user_id}/tasks/{id}
DeleteTask(h, u, id) ==
    LET auth == verify_path_user_id(u, h, clock)
        res == delete_task(tasks, id, u)
    IN  IF auth[1] # 0 THEN Rejected("delete", h, u, auth)
        ELSE /\ tasks' = res[1]
             /\ response' = Resp("delete", "rest", h, u, auth[2], id,
                                 IF res[2] THEN 204 ELSE 404,
                                 IF res[2] THEN "ok" ELSE "not_found", NoTask, <<>>)
             /\ deleted' = IF res[2] THEN deleted \cup {[id |-> id, user |-> u, at |-> clock]} ELSE deleted
             /\ UNCHANGED <<task_seq, id_reuse, chatVars, auxVars>>

\* PATCH /api/{user_id}/tasks/{id}/complete
MarkComplete(h, u, id) ==
    LET auth == verify_path_user_id(u, h, clock)
    IN  IF auth[1] # 0 THEN Rejected("complete", h, u, auth)
        ELSE Write("complete", "rest", h, u, auth[2], id, NoArgs, 200, 404,
                   [now \in Readings |-> mark_complete(tasks, id, u, now)])

\* PATCH /api/{user_id}/tasks/{id}/incomplete
MarkIncomplete(h, u, id) ==
    LET auth == verify_path_user_id(u, h, clock)
    IN  IF auth[1] # 0 THEN Rejected("incomplete", h, u, auth)
        ELSE Write("incomplete", "rest", h, u, auth[2], id, NoArgs, 200, 404,
                   [now \in Readings |-> mark_incomplete(tasks, id, u, now)])

\* ------------------------------------------ tool endpoints (api/tools.py)
\* The /tools routes take the user from the request body and have no
\* authentication dependency; they always answer 200 with a status in the body.
NoHeader == <<>>

\* POST /tools/add_task
\* The handler of POST /tools/add_task: what it does to the database and
\* what it answers.
HandleAddTask(u, title) ==
    IF title = ""
    THEN /\ response' = Resp("create", "tool", NoHeader, u, None, 0, 200, "validation_error", NoTask, <<>>)
         /\ UNCHANGED <<tasks, task_seq, clock>>
    ELSE /\ clock < MaxTaskWrites
         /\ \E now \in NowReadings :
              LET id == NextTaskId(tasks, task_seq, id_reuse)
                  res == create_task(tasks, id, u, title, "", None, now)
              IN  /\ clock' = now
                  /\ tasks' = res[1]
                  /\ task_seq' = task_seq + 1
                  /\ response' = Resp("create", "tool", NoHeader, u, None, id, 200, "ok", res[2], <<>>)

ToolAddTask(u, title) ==
    /\ HandleAddTask(u, title)
    /\ UNCHANGED <<auxVars, id_reuse, deleted, conversations, messages, tool_calls, clock_coarse,
                   last_history, agent_cache, agent_env_ok, requests>>

\* POST /tools/list_tasks
ToolListTasks(u) ==
    /\ \E listed \in get_tasks_for_user(tasks, u, None, None) :
          response' = Resp("list", "tool", NoHeader, u, None, 0, 200, "ok", NoTask, listed)
    /\ UNCHANGED <<tasks, task_seq, id_reuse, deleted, chatVars, auxVars>>

\* POST /tools/complete_task
ToolCompleteTask(u, id) ==
    Write("complete", "tool", NoHeader, u, None, id, NoArgs, 200, 200,
          [now \in Readings |-> mark_complete(tasks, id, u, now)])

\* POST /tools/update_task
ToolUpdateTask(u, id, title, description) ==
    Write("update", "tool", NoHeader, u, None, id, <<title, description, None>>, 200, 200,
          [now \in Readings |-> update_task(tasks, id, u, title, description, None, now)])

\* POST /tools/delete_task
ToolDeleteTask(u, id) ==
    LET res == delete_task(tasks, id, u)
    IN  /\ tasks' = res[1]
        /\ response' = Resp("delete", "tool", NoHeader, u, None, id, 200,
                            IF res[2] THEN "ok" ELSE "not_found", NoTask, <<>>)
        /\ deleted' = IF res[2] THEN deleted \cup {[id |-> id, user |-> u, at |-> clock]} ELSE deleted
        /\ UNCHANGED <<task_seq, id_reuse, chatVars, auxVars>>

\* ----------------------------------------------- MCP tools (mcp-server)
\* UPDATE tasks SET status = 'completed', updated_at = CURRENT_TIMESTAMP
\* WHERE id = $1 AND user_id = $2 RETURNING ...
sql_complete_task(tbl, task_id, user_id, now) ==
    LET task == get_task_by_id(tbl, task_id, user_id)
        new == [task EXCEPT !.status = "completed", !.updated_at = now]
    IN  IF task = NoTask THEN <<tbl, NoTask>> ELSE <<Commit(tbl, task, new), new>>

\* UPDATE tasks SET [title = ..,] [description = ..,] updated_at =
\* CURRENT_TIMESTAMP WHERE id = .. AND user_id = .. RETURNING ...
sql_update_task(tbl, task_id, user_id, title, description, now) ==
    LET task == get_task_by_id(tbl, task_id, user_id)
        new == [task EXCEPT !.title = IF title # None THEN title ELSE @,
                            !.description = IF description # None THEN description ELSE @,
                            !.updated_at = now]
    IN  IF task = NoTask THEN <<tbl, NoTask>> ELSE <<Commit(tbl, task, new), new>>

\* handle_complete_task
HandleCompleteTask(u, id) ==
    Write("complete", "mcp", NoHeader, u, None, id, NoArgs, 200, 200,
          [now \in Readings |-> sql_complete_task(tasks, id, u, now)])

\* handle_update_task
HandleUpdateTask(u, id, title, description) ==
    Write("update", "mcp", NoHeader, u, None, id, <<title, description, None>>, 200, 200,
          [now \in Readings |-> sql_update_task(tasks, id, u, title, description, now)])

\* handle_delete_task: DELETE FROM tasks WHERE id = $1 AND user_id = $2 RETURNING id
HandleDeleteTask(u, id) ==
    LET res == delete_task(tasks, id, u)
    IN  /\ tasks' = res[1]
        /\ response' = Resp("delete", "mcp", NoHeader, u, None, id, 200,
                            IF res[2] THEN "ok" ELSE "not_found", NoTask, <<>>)
        /\ deleted' = IF res[2] THEN deleted \cup {[id |-> id, user |-> u, at |-> clock]} ELSE deleted
        /\ UNCHANGED <<task_seq, id_reuse, chatVars, auxVars>>

\* ------------------------------------------------------- the task system
InitTasks ==
    /\ conversations = InitConversations
    /\ messages = <<>>
    /\ tool_calls = <<>>
    /\ clock = 0
    /\ clock_coarse = FALSE
    /\ last_history = <<>>
    /\ agent_cache = "empty"
    /\ agent_env_ok = TRUE
    /\ requests = [r \in Requests |-> UnusedRequest]
    /\ tasks = {}
    /\ task_seq = 0
    /\ id_reuse \in BOOLEAN
    /\ deleted = {}
    /\ response = NoResponse
    /\ InitAux

Titles == {"a", ""}

\* (title, description, priority) of an update; None is a field not supplied.
UpdateArgs == {<<"b", None, None>>, <<None, "d", None>>, <<None, None, "high">>, <<None, None, None>>}

\* The REST API of tasks, used by clients with valid tokens.
NextTasks ==
    \/ \E h \in OwnHeaders, u \in Users, title \in Titles : CreateTask(h, u, title)
    \/ \E h \in OwnHeaders, u \in Users : ListTasks(h, u)
    \/ \E h \in OwnHeaders, u \in Users, id \in TaskIds : GetTask(h, u, id)
    \/ \E h \in OwnHeaders, u \in Users, id \in TaskIds, a \in UpdateArgs :
            UpdateTask(h, u, id, a[1], a[2], a[3])
    \/ \E h \in OwnHeaders, u \in Users, id \in TaskIds : DeleteTask(h, u, id)
    \/ \E h \in OwnHeaders, u \in Users, id \in TaskIds : MarkComplete(h, u, id)
    \/ \E h \in OwnHeaders, u \in Users, id \in TaskIds : MarkIncomplete(h, u, id)

SpecTasks == InitTasks /\ [][NextTasks]_vars

\* (title, description) of a tool's update.
ToolUpdateArgs == {<<"b", None>>, <<None, "d">>}

\* The header a client sends that holds the valid token of user u.
OwnHeader(u) == CHOOSE h \in OwnHeaders : h[2].sub = u

\* The tool interfaces next to the REST API: the /tools routes and the MCP
\* tools, with tasks created and completed over REST as well.
NextTools ==
    \/ \E u \in Users : CreateTask(OwnHeader(u), u, "a")
    \/ \E u \in Users, id \in TaskIds : MarkComplete(OwnHeader(u), u, id)
    \/ \E u \in Users, title \in Titles : ToolAddTask(u, title)
    \/ \E u \in Users : ToolListTasks(u)
    \/ \E u \in Users, id \in TaskIds : ToolCompleteTask(u, id)
    \/ \E u \in Users, id \in TaskIds, a \in ToolUpdateArgs : ToolUpdateTask(u, id, a[1], a[2])
    \/ \E u \in Users, id \in TaskIds : ToolDeleteTask(u, id)
    \/ \E u \in Users, id \in TaskIds : HandleCompleteTask(u, id)
    \/ \E u \in Users, id \in TaskIds, a \in ToolUpdateArgs : HandleUpdateTask(u, id, a[1], a[2])
    \/ \E u \in Users, id \in TaskIds : HandleDeleteTask(u, id)

SpecTools == InitTasks /\ [][NextTools]_vars

\* The task on which the requests of NextAuth act.
FirstTask == CHOOSE id \in TaskIds : \A other \in TaskIds : id <= other

\* Every protected task endpoint, called with every kind of Authorization header.
NextAuth ==
    \/ \E h \in Headers, u \in Users, title \in Titles : CreateTask(h, u, title)
    \/ \E h \in Headers, u \in Users : ListTasks(h, u)
    \/ \E h \in Headers, u \in Users : GetTask(h, u, FirstTask)
    \/ \E h \in Headers, u \in Users : UpdateTask(h, u, FirstTask, "b", None, None)
    \/ \E h \in Headers, u \in Users : DeleteTask(h, u, FirstTask)
    \/ \E h \in Headers, u \in Users : MarkComplete(h, u, FirstTask)
    \/ \E h \in Headers, u \in Users : MarkIncomplete(h, u, FirstTask)

SpecAuth == InitTasks /\ [][NextAuth]_vars

\* ------------------------------------------------- the agent's tool invoker
\* The default of the parameter retries.
DEFAULT_RETRIES == 2

\* Config.MAX_RETRIES, unless the environment sets it.
MAX_RETRIES == 2

\* The values of retries with which invoke_mcp_tool is called.
RetriesArgs == 0..MaxRetriesArg

\* What one client.post can come to: a response with a status and a body that
\* is JSON or not, httpx.TimeoutException or httpx.RequestError.
PostOutcomes ==
    [kind : {"response"}, status : {200, 400, 404, 500, 503}, json : BOOLEAN]
    \cup {[kind |-> "timeout", status |-> 0, json |-> FALSE],
          [kind |-> "request_error", status |-> 0, json |-> FALSE]}

\* Whether the endpoint's handler ran for a post with that outcome: a 200 with
\* a JSON body is the handler's answer, a 400 or 404 comes from in front of the
\* handler, and a failure can happen before or after the handler ran.
Served(o) ==
    IF o.kind = "response" /\ o.status = 200 /\ o.json THEN {TRUE}
    ELSE IF o.kind = "response" /\ o.status \in {400, 404} THEN {FALSE}
    ELSE BOOLEAN

\* retries or config.MAX_RETRIES
Or(a, b) == IF a = 0 THEN b ELSE a

\* invoke_mcp_tool up to the loop: the frame, or ToolInvocationError at once
\* when range(max_retries + 1) is empty.
invoke_mcp_tool(caller, u, title, retries) ==
    LET max_retries == Or(retries, MAX_RETRIES)
    IN  [NoInvocation EXCEPT !.pc = IF max_retries + 1 > 0 THEN "loop" ELSE "raised",
                             !.raised = IF max_retries + 1 > 0 THEN None ELSE "ToolInvocationError",
                             !.caller = caller, !.user = u, !.title = title,
                             !.retries = retries, !.max_retries = max_retries]

\* The rest of the loop body after a failed attempt: continue or raise.
RetryOrRaise(f) ==
    IF f.attempt < f.max_retries
    THEN [f EXCEPT !.attempt = @ + 1]
    ELSE [f EXCEPT !.pc = "raised", !.raised = "ToolInvocationError"]

\* One pass of the loop body, for the outcome o of client.post; answer is the
\* body of a 200.
LoopBody(f, o, answer) ==
    IF o.kind = "timeout" \/ o.kind = "request_error" THEN RetryOrRaise(f)
    ELSE IF o.status = 200
    THEN IF o.json THEN [f EXCEPT !.pc = "returned", !.result = answer]
                   ELSE [f EXCEPT !.pc = "raised", !.raised = "JSONDecodeError"]
    ELSE IF o.status = 400
    THEN IF o.json THEN [f EXCEPT !.pc = "returned", !.result = "validation_error"]
                   ELSE [f EXCEPT !.pc = "raised", !.raised = "JSONDecodeError"]
    ELSE IF o.status = 404 THEN [f EXCEPT !.pc = "returned", !.result = "not_found"]
    ELSE IF o.status = 500
    THEN IF o.json THEN RetryOrRaise(f)
                   ELSE [f EXCEPT !.pc = "raised", !.raised = "JSONDecodeError"]
    ELSE RetryOrRaise(f)

\* invoke_mcp_tool("add_task", {"title": title}, config, retries, user_id) is called.
InvokeMcpTool(u, title, retries) ==
    /\ invocation.pc # "loop"
    /\ invocation' = invoke_mcp_tool("direct", u, title, retries)
    /\ UNCHANGED <<taskVars, chatVars, recent, page, store>>

\* The agent's function tool add_task calls invoke_mcp_tool without retries.
AgentAddTask(u, title) ==
    /\ invocation.pc # "loop"
    /\ invocation' = invoke_mcp_tool("agent", u, title, DEFAULT_RETRIES)
    /\ UNCHANGED <<taskVars, chatVars, recent, page, store>>

\* One attempt: client.post to /tools/add_task, during which the endpoint's
\* handler runs or not, and the rest of the loop body.
Post(o, served) ==
    /\ invocation.pc = "loop"
    /\ LET sent == [invocation EXCEPT !.posts = @ + 1, !.last = o]
       IN  IF served
           THEN /\ HandleAddTask(invocation.user, invocation.title)
                /\ invocation' =
                      LoopBody([sent EXCEPT !.created =
                                   IF response'.result = "ok" THEN Append(@, response'.id) ELSE @],
                               o, response'.result)
           ELSE /\ invocation' = LoopBody(sent, o, None)
                /\ UNCHANGED <<tasks, task_seq, clock, response>>
    /\ UNCHANGED <<recent, page, store, id_reuse, deleted, conversations, messages, tool_calls,
                   clock_coarse, last_history, agent_cache, agent_env_ok, requests>>

NextInvoker ==
    \/ \E u \in Users, title \in Titles, retries \in RetriesArgs : InvokeMcpTool(u, title, retries)
    \/ \E u \in Users, title \in Titles : AgentAddTask(u, title)
    \/ \E o \in PostOutcomes : \E served \in Served(o) : Post(o, served)

SpecInvoker == InitTasks /\ [][NextInvoker]_vars

\* ------------------------------------------------ the in-memory task store
\* The titles typed at the prompt.
StoreTitles == {"a", "b", " "}

\* The ids typed at the prompt.
StoreIds == 1..(MaxStoreAdds + 1)

\* title.strip()
Strip(title) == IF title = " " THEN "" ELSE title

\* Variant of storage_add_task: the id is the length of the list plus one.
storage_add_task_FromLength(st, title) ==
    [st EXCEPT !.tasks = Append(@, [id |-> Len(st.tasks) + 1, title |-> title, completed |-> FALSE])]

\* TaskStorage.add_task for a new Task(id=0, title, completed=False).
storage_add_task(st, title) ==
    [st EXCEPT !.tasks = Append(@, [id |-> st.next_id, title |-> title, completed |-> FALSE]),
               !.next_id = @ + 1]

\* TaskStorage.list_ids
list_ids(st) == [i \in 1..Len(st.tasks) |-> st.tasks[i].id]

\* Index of the first task with that id, 0 if there is none.
IndexOf(st, task_id) ==
    IF \E i \in 1..Len(st.tasks) : st.tasks[i].id = task_id
    THEN CHOOSE i \in 1..Len(st.tasks) :
            /\ st.tasks[i].id = task_id
            /\ \A j \in 1..(i - 1) : st.tasks[j].id # task_id
    ELSE 0

\* TaskStorage.delete_task: pops the first task with that id.
storage_delete_task(st, task_id) ==
    LET i == IndexOf(st, task_id)
    IN  IF i = 0 THEN st
        ELSE [st EXCEPT !.tasks = SubSeq(@, 1, i - 1) \o SubSeq(@, i + 1, Len(@)),
                        !.removed = @ \cup {task_id}]

\* TaskStorage.update_task: sets the title of the first task with that id.
storage_update_task(st, task_id, title) ==
    LET i == IndexOf(st, task_id)
    IN  IF i = 0 THEN st ELSE [st EXCEPT !.tasks[i].title = title]

\* TaskStorage.mark_complete and mark_incomplete.
storage_mark(st, task_id, completed) ==
    LET i == IndexOf(st, task_id)
    IN  IF i = 0 THEN st ELSE [st EXCEPT !.tasks[i].completed = completed]

\* Whether the service finds the id in storage.list_ids().
Listed(st, task_id) == \E i \in DOMAIN list_ids(st) : list_ids(st)[i] = task_id

\* TaskService.add_task(title) of the console application.
StoreAddTask(title) ==
    /\ store.next_id <= MaxStoreAdds
    /\ store' = IF Strip(title) = "" THEN store ELSE storage_add_task(store, Strip(title))
    /\ UNCHANGED <<taskVars, chatVars, recent, page, invocation>>

\* TaskService.delete_task(task_id)
StoreDeleteTask(task_id) ==
    /\ store' = IF Listed(store, task_id) THEN storage_delete_task(store, task_id) ELSE store
    /\ UNCHANGED <<taskVars, chatVars, recent, page, invocation>>

\* TaskService.update_task(task_id, title)
StoreUpdateTask(task_id, title) ==
    /\ store' = IF Listed(store, task_id) /\ Strip(title) # ""
                THEN storage_update_task(store, task_id, Strip(title))
                ELSE store
    /\ UNCHANGED <<taskVars, chatVars, recent, page, invocation>>

\* TaskService.mark_complete(task_id) and mark_incomplete(task_id)
StoreMark(task_id, completed) ==
    /\ store' = IF Listed(store, task_id) THEN storage_mark(store, task_id, completed) ELSE store
    /\ UNCHANGED <<taskVars, chatVars, recent, page, invocation>>

NextStore ==
    \/ \E title \in StoreTitles : StoreAddTask(title)
    \/ \E task_id \in StoreIds : StoreDeleteTask(task_id)
    \/ \E task_id \in StoreIds, title \in StoreTitles : StoreUpdateTask(task_id, title)
    \/ \E task_id \in StoreIds, completed \in BOOLEAN : StoreMark(task_id, completed)

SpecStore == InitTasks /\ [][NextStore]_vars

\* ------------------------------------------ the conversation-history endpoint
\* The default of the query parameter limit.
PAGE_LIMIT == 50

\* messages[skip : skip + limit]
Slice(seq, skip, limit) == SubSeq(seq, skip + 1, Min(Len(seq), skip + limit))

\* The response of the endpoint; got holds the ids of the pages a client has
\* fetched with successive skip values, this one included.
PageResp(user_id, c, skip, limit, status, msgs) ==
    [user |-> user_id, conversation |-> c, skip |-> skip, limit |-> limit,
     status |-> status, messages |-> msgs,
     got |-> LET ids == [i \in 1..Len(msgs) |-> msgs[i].id]
             IN  IF skip = 0 THEN ids ELSE page.got \o ids]

\* The skip values of a client that pages: 0, and after a full page the
\* next multiple of the limit.
Skips(user_id, c, limit) ==
    {0} \cup IF /\ page.status = 200 /\ page.user = user_id /\ page.conversation = c
                /\ page.limit = limit /\ Len(page.messages) = limit
             THEN {page.skip + limit}
             ELSE {}

\* GET /api/{user_id}/conversations/{conversation_id}?skip=&limit=
GetConversationHistory(h, user_id, c, skip, limit) ==
    /\ LET auth == verify_path_user_id(user_id, h, clock)
       IN  IF auth[1] # 0
           THEN page' = PageResp(user_id, c, skip, limit, auth[1], <<>>)
           ELSE IF get_conversation(conversations, c, user_id) = 0
           THEN page' = PageResp(user_id, c, skip, limit, 404, <<>>)
           ELSE \E resp \in get_full_conversation_response(messages, tool_calls, c) :
                   page' = PageResp(user_id, c, skip, limit, 200, Slice(resp, skip, limit))
    /\ UNCHANGED <<taskVars, chatVars, recent, invocation, store>>

NextPaging ==
    \/ \E c \in DOMAIN conversations, role \in {"user", "assistant"} : InsertMessage(c, role)
    \/ \E h \in OwnHeaders \cup {NoHeader}, u \in Users, c \in DOMAIN conversations :
          \E skip \in Skips(u, c, PAGE_LIMIT) : GetConversationHistory(h, u, c, skip, PAGE_LIMIT)

SpecPaging == Init /\ [][NextPaging]_vars

\* ================================================================ claims
\* The rows of the messages table that hold the user message of request r.
UserRows(r) ==
    {i \in DOMAIN messages : /\ messages[i].conversation_id = requests[r].conversation
                             /\ messages[i].role = "user"
                             /\ messages[i].content = requests[r].message}

IsAssistantRow(i, r) ==
    /\ i \in DOMAIN messages
    /\ messages[i].conversation_id = requests[r].conversation
    /\ messages[i].role = "assistant"

\* C1: in every chat request the user message is committed before the agent is
\* invoked (an agent that is running or has run implies a stored user row),
\* and the assistant reply is committed only after the agent has returned and
\* after the user message.
C1_UserMessageBeforeAgent ==
    \A r \in Requests :
        /\ requests[r].agent_state # "idle" => UserRows(r) # {}
        /\ requests[r].assistant_message # 0 =>
              /\ requests[r].agent_state = "returned"
              /\ IsAssistantRow(requests[r].assistant_message, r)
              /\ \E i \in UserRows(r) : i < requests[r].assistant_message

\* C1 witness: a request whose agent has returned and whose reply is stored.
C1_Witness ==
    \E r \in Requests :
        /\ requests[r].agent_state = "returned"
        /\ requests[r].assistant_message # 0
        /\ UserRows(r) # {}

\* C2: the server holds no in-memory state that a chat request's outcome
\* depends on: the agent this server process gives a request (and with it
\* whether the request is served or refused with 500 AGENT_UNAVAILABLE) is the
\* agent a freshly started or another server process would give it.
C2_SameAsFreshServer ==
    _get_agent(agent_cache, agent_env_ok)[1] = _get_agent("empty", agent_env_ok)[1]

\* The rows that hold the user message of client request o, in any conversation.
RowsOfOrigin(o) ==
    {i \in DOMAIN messages : messages[i].role = "user" /\ messages[i].content = MessageOf(o)}

\* C3: a request resent after a crash, once answered, leaves the database as
\* one uncrashed run would: the user message is stored exactly once.
C3_ReplayedOnce ==
    \A r \in Requests :
        (requests[r].status = 200 /\ requests[r].origin # r)
            => Cardinality(RowsOfOrigin(requests[r].origin)) = 1

\* C4: when the agent is unavailable, raises or times out after the user
\* message was persisted, the request fails with 500 or 408 and the user
\* message stays stored in its conversation.
C4_UserMessageKept ==
    \A r \in Requests :
        LET q == requests[r]
            unavailable == q.pc = "done" /\ q.user_message # 0 /\ q.agent = None
            raised == q.agent_state = "raised"
            timed_out == q.error_code = "AGENT_TIMEOUT"
        IN  /\ unavailable => q.status = 500
            /\ raised => q.status = 500
            /\ timed_out => q.status = 408
            /\ (unavailable \/ raised \/ timed_out) =>
                  /\ q.user_message \in UserRows(r)
                  /\ q.assistant_message = 0

\* C4 witness: a request that timed out or whose agent raised, with its user
\* message stored.
C4_Witness ==
    \E r \in Requests :
        /\ requests[r].error_code \in {"AGENT_TIMEOUT", "AGENT_ERROR"}
        /\ requests[r].status \in {408, 500}
        /\ requests[r].user_message \in UserRows(r)

\* The rows of the request's conversation persisted up to its own user message.
PriorRows(r) ==
    SelectSeq(RowsOf(messages, requests[r].conversation),
              LAMBDA i : i <= requests[r].user_message)

\* C5: the agent is handed the full prior history: every message persisted in
\* the conversation up to the request's user message, oldest first, is in the
\* history passed to process_message.
C5_AgentGetsFullHistory ==
    \A r \in Requests :
        requests[r].pc = "await_agent" =>
            LET prior == format_history_for_agent(messages, PriorRows(r))
                given == requests[r].formatted_history
            IN  /\ Len(given) >= Len(prior)
                /\ SubSeq(given, 1, Len(prior)) = prior

\* C6: history reconstruction returns the messages in the order in which they
\* were persisted (ascending primary key).
C6_HistoryInPersistedOrder ==
    \A i, j \in DOMAIN last_history : i < j => last_history[i] < last_history[j]

\* C7: every chat request that succeeded has its user message stored, exactly
\* once, whatever other requests ran concurrently on the conversation.
C7_ConcurrentMessagesKept ==
    \A r \in Requests :
        requests[r].status = 200 =>
            /\ UserRows(r) = {requests[r].user_message}
            /\ \A k \in Requests \ {r} :
                  requests[k].user_message # requests[r].user_message

\* C7 witness: two successful requests to one conversation that overlapped (the
\* second stored its user message between the two writes of the first).
C7_Witness ==
    \E r, k \in Requests :
        /\ r # k
        /\ requests[r].status = 200 /\ requests[k].status = 200
        /\ requests[r].conversation = requests[k].conversation
        /\ requests[r].user_message < requests[k].user_message
        /\ requests[k].user_message < requests[r].assistant_message

ResponseIds(r) == {requests[r].response_messages[i].id : i \in DOMAIN requests[r].response_messages}

\* C8: a successful chat response returns the conversation in chronological
\* order and includes the user message just sent and the reply just produced.
C8_ResponseHasExchange ==
    \A r \in Requests :
        requests[r].status = 200 =>
            LET resp == requests[r].response_messages
            IN  /\ requests[r].user_message \in ResponseIds(r)
                /\ requests[r].assistant_message \in ResponseIds(r)
                /\ \A i, j \in DOMAIN resp : i < j => resp[i].id < resp[j].id

\* Number of messages a conversation holds before any request.
InitialRows(c) == IF c = ExistingConv THEN PreloadedMessages ELSE 0

Alone(r) == \A k \in Requests \ {r} : requests[k].pc = "unused"

LastRow(c) == RowsOf(messages, c)[Len(RowsOf(messages, c))]

Inserted(c) ==
    Cardinality({k \in Requests : requests[k].conversation = c /\ requests[k].user_message # 0})
    + Cardinality({k \in Requests : requests[k].conversation = c /\ requests[k].assistant_message # 0})

RecordedToolCalls(message_id) ==
    LET tcs == ToolCallsOf(tool_calls, message_id)
    IN  [i \in 1..Len(tcs) |-> [tool_name |-> tcs[i].tool_name,
                                parameters |-> tcs[i].parameters,
                                result |-> tcs[i].result]]

\* C10: every tool invocation of the agent during a chat request is stored as
\* a tool-call row (name, parameters, result) of the request's assistant message.
C10_ToolCallsRecorded ==
    \A r \in Requests :
        requests[r].assistant_message # 0 =>
            RecordedToolCalls(requests[r].assistant_message) = requests[r].tools_invoked

\* C11: a tool-call record is immutable: no step changes the tool name, the
\* parameters or the result of a row of tool_calls that exists.
C11_ToolCallImmutable ==
    [][\A i \in DOMAIN tool_calls :
          /\ i \in DOMAIN tool_calls'
          /\ tool_calls'[i].tool_name = tool_calls[i].tool_name
          /\ tool_calls'[i].parameters = tool_calls[i].parameters
          /\ tool_calls'[i].result = tool_calls[i].result]_vars

\* Requests that named a conversation which does not exist or is not theirs.
NamesForeignConv(r) ==
    /\ requests[r].pc # "unused"
    /\ requests[r].conversation_id # 0
    /\ \/ requests[r].conversation_id \notin DOMAIN conversations
       \/ conversations[requests[r].conversation_id].user_id # requests[r].user_id

\* C12: a chat request naming a conversation that does not exist or belongs to
\* another user is answered 404 CONVERSATION_NOT_FOUND, stores no message and
\* creates no conversation.
C12_ForeignConversationRejected ==
    /\ \A r \in Requests :
          NamesForeignConv(r) =>
              /\ requests[r].pc = "done"
              /\ requests[r].status = 404
              /\ requests[r].error_code = "CONVERSATION_NOT_FOUND"
              /\ requests[r].user_message = 0
              /\ requests[r].assistant_message = 0
              /\ RowsOfOrigin(r) = {}
    /\ Len(conversations) = Len(InitConversations)
          + Cardinality({r \in Requests : requests[r].pc # "unused"
                                          /\ requests[r].conversation_id = 0})
    /\ Len(messages) = PreloadedMessages
          + Cardinality({r \in Requests : ~NamesForeignConv(r) /\ requests[r].user_message # 0})
          + Cardinality({r \in Requests : ~NamesForeignConv(r) /\ requests[r].assistant_message # 0})

\* C12 witness: both kinds of rejected request: one naming an id that does not
\* exist, one naming another user's conversation.
C12_Witness ==
    \E r, k \in Requests :
        /\ NamesForeignConv(r) /\ requests[r].conversation_id = NoSuchConv
        /\ NamesForeignConv(k) /\ requests[k].conversation_id = ExistingConv
        /\ requests[r].status = 404 /\ requests[k].status = 404

\* C13: no reconstructed history of a conversation holds a message persisted
\* to another conversation: neither what the query can return for any
\* conversation, nor the history a handler handed to the agent, nor the
\* messages of a response.
C13_ConversationsIsolated ==
    /\ \A c \in DOMAIN conversations :
          \A h \in reconstruct_conversation_history(messages, c) :
              \A i \in DOMAIN h : messages[h[i]].conversation_id = c
    /\ \A r \in Requests :
          /\ \A i \in DOMAIN requests[r].formatted_history :
                \A k \in Requests :
                    (requests[k].pc # "unused"
                     /\ requests[r].formatted_history[i].content = requests[k].message)
                        => requests[k].conversation = requests[r].conversation
          /\ \A i \in DOMAIN requests[r].response_messages :
                messages[requests[r].response_messages[i].id].conversation_id
                    = requests[r].conversation

\* C13 witness: two requests to different conversations ran interleaved: each
\* stored its user message before the other was handed its history, and both
\* were answered.
C13_Witness ==
    \E r, k \in Requests :
        /\ requests[r].conversation # requests[k].conversation
        /\ requests[r].status = 200 /\ requests[k].status = 200
        /\ requests[r].user_message < requests[k].user_message
        /\ requests[k].user_message < requests[r].assistant_message
        /\ requests[r].response_messages # <<>>

\* The last request was served over HTTP and acted on tasks: it created,
\* returned, listed, changed or deleted tasks of the user it named.
ActedOverHttp ==
    /\ response.op # None
    /\ response.via \in {"rest", "tool"}
    /\ response.result = "ok"

\* C14: every HTTP request that creates, reads, changes or deletes tasks of a
\* user carried a valid bearer token, and the user whose tasks it acted on is
\* the user the token identifies.
C14_TokenAndOwnershipRequired ==
    ActedOverHttp =>
        /\ response.caller \in Users
        /\ response.caller = response.user

\* The token of a header carries no user id: no sub claim, or an empty one
\* and no user_id claim either.
NoUserId(token) ==
    \/ token.sub = None
    \/ token.sub = "" /\ token.user_id \in {None, ""}

\* The cases of 401: the header is missing, is not 'Bearer <token>', or its
\* token is malformed, wrongly signed, expired at time now, or without user id.
Unauthenticated(h, now) ==
    \/ h = <<>>
    \/ Len(h) # 2
    \/ h[1] # "Bearer"
    \/ h[2].kind # "jwt"
    \/ h[2].key # SECRET
    \/ h[2].has_exp /\ h[2].exp <= now
    \/ NoUserId(h[2])

\* C15: a request to a protected endpoint whose Authorization header is
\* missing, is not 'Bearer <token>', or holds a malformed, wrongly signed,
\* expired or user-less token is answered 401, and one whose valid token names
\* another user than the path is answered 403; in both cases the handler has
\* not run (the answer is not the handler's 400, 404 or success) and no state
\* has changed.
C15_RejectedBeforeHandler ==
    [][LET q == response'
       IN  (q.op # None /\ q.via = "rest") =>
              /\ Unauthenticated(q.header, clock) =>
                    /\ q.status = 401 /\ q.result = "unauthorized"
                    /\ UNCHANGED <<tasks, task_seq, id_reuse, deleted, chatVars, auxVars>>
              /\ (~Unauthenticated(q.header, clock) /\ q.header[2].sub # q.user) =>
                    /\ q.status = 403 /\ q.result = "forbidden"
                    /\ UNCHANGED <<tasks, task_seq, id_reuse, deleted, chatVars, auxVars>>
              /\ (~Unauthenticated(q.header, clock) /\ q.header[2].sub = q.user) =>
                    q.status \notin {401, 403}]_vars

\* C15 witness: a delete with another user's valid token was answered 403
\* while the task it named is stored for the user of the path.
C15_Witness ==
    /\ response.op = "delete"
    /\ response.status = 403
    /\ \E t \in tasks : t.id = FirstTask /\ t.user_id = response.user

\* The last request was a well-formed get, update, delete or mark-complete that
\* passed authentication and named the id of a task stored for another user.
OnForeignTask(q, tbl) ==
    /\ q.op \in {"get", "update", "delete", "complete"}
    /\ q.status \notin {400, 401, 403}
    /\ \E t \in tbl : t.id = q.id /\ t.user_id # q.user

\* C16: a get, update, delete or mark-complete by a user on a task owned by
\* another user reports not found (404 over REST) and returns no task, and
\* the table of tasks is left as it was.
C16_NonOwnerGetsNotFound ==
    [][LET q == response'
       IN  (q.op # None /\ OnForeignTask(q, tasks)) =>
              /\ q.result = "not_found"
              /\ q.via = "rest" => q.status = 404
              /\ q.task = NoTask
              /\ tasks' = tasks]_vars

\* C16 witness: a user's delete of a task stored for another user was
\* answered not found, and the task is still stored.
C16_Witness ==
    /\ response.op = "delete"
    /\ response.result = "not_found"
    /\ \E t \in tasks : t.id = response.id /\ t.user_id # response.user

Range(s) == {s[i] : i \in DOMAIN s}

\* C17: whatever operations went before, every possible result of listing the
\* tasks of a user holds each stored task of that user exactly once and no
\* task of another user, and so does the list an endpoint has just returned.
C17_ListIsOwnTasks ==
    /\ \A u \in Users :
          \A listed \in get_tasks_for_user(tasks, u, None, None) :
              /\ Range(listed) = {t \in tasks : t.user_id = u}
              /\ Len(listed) = Cardinality(Range(listed))
    /\ (response.op = "list" /\ response.result = "ok") =>
          /\ Range(response.listed) = {t \in tasks : t.user_id = response.user}
          /\ Len(response.listed) = Cardinality(Range(response.listed))

\* C17 witness: a list was returned with tasks in it while a task of another
\* user is stored, after tasks were created and one was deleted.
C17_Witness ==
    /\ response.op = "list"
    /\ response.listed # <<>>
    /\ \E t \in tasks : t.user_id # response.user
    /\ task_seq > Cardinality(tasks)

\* The step is a successful mark-complete on a task that already had the
\* status this call writes: a second or later call.
CompletedAgain(q, tbl) ==
    /\ q.op = "complete"
    /\ q.result = "ok"
    /\ get_task_by_id(tbl, q.id, q.user).status = q.task.status

\* C18 as stated: marking complete a task that is complete already succeeds
\* and leaves the stored task exactly as the earlier call left it.
C18_SameStateAsOnce ==
    [][LET q == response'
       IN  (q.op # None /\ CompletedAgain(q, tasks)) => tasks' = tasks]_vars

\* C18 amended: marking a task complete succeeds whenever the caller owns the
\* task, also when it is complete already; a repeated call leaves every field
\* of the task as the earlier call left it except updated_at, which is set
\* anew, and touches no other task.
C18_SameStateButUpdatedAt ==
    [][LET q == response'
           old == get_task_by_id(tasks, q.id, q.user)
       IN  (q.op = "complete" /\ q.status \notin {401, 403}) =>
              /\ old # NoTask => q.result = "ok"
              /\ q.result = "ok" =>
                    /\ q.task.status \in {"complete", "completed"}
                    /\ tasks' = Commit(tasks, old, q.task)
              /\ CompletedAgain(q, tasks) =>
                    /\ q.task = [old EXCEPT !.updated_at = clock']
                    /\ clock' > old.updated_at]_vars

\* C18 witness: the only task ever created was marked complete twice in a
\* row, the second time over REST: nothing else was written between its
\* creation at 1 and the answer at 3.
C18_Witness ==
    /\ response.op = "complete" /\ response.via = "rest" /\ response.result = "ok"
    /\ task_seq = 1
    /\ tasks = {response.task}
    /\ response.task.status = "complete"
    /\ response.task.created_at = 1
    /\ response.task.updated_at = 3
    /\ response.task.title = "a"
    /\ response.task.description \in {None, ""}

\* The step is a well-formed, authenticated get, update, mark-complete or
\* delete by a user on the id of a task that this user deleted before.
OnDeletedTask(q) ==
    /\ q.op \in {"get", "update", "complete", "delete"}
    /\ q.status \notin {400, 401, 403}
    /\ \E d \in deleted : d.id = q.id /\ d.user = q.user

\* C19 as stated: after a successful delete of a task, every later get,
\* update, complete or delete of that task id by the former owner reports not
\* found.
C19_DeletedIdStaysNotFound ==
    [][LET q == response'
       IN  (q.op # None /\ OnDeletedTask(q)) => q.result = "not_found"]_vars

\* C19 amended: after a successful delete of a task, a later get, update,
\* complete or delete of that task id by the former owner reports not found
\* (over REST: 404) unless the database has since given the id to a task
\* created after the delete, which happens only where ids are reused; a
\* successful delete leaves no row with that id.
C19_NotFoundUntilIdReassigned ==
    [][LET q == response'
       IN  /\ (q.op # None /\ OnDeletedTask(q)) =>
                 \/ /\ q.result = "not_found"
                    /\ q.via = "rest" => q.status = 404
                 \/ /\ id_reuse
                    /\ \E t \in tasks :
                          /\ t.id = q.id /\ t.user_id = q.user
                          /\ \A d \in deleted : d.id = q.id => t.created_at > d.at
           /\ (q.op = "delete" /\ q.result = "ok") =>
                 \A t \in tasks' : t.id # q.id]_vars

\* C19 witness: a second delete of a task by its former owner was answered
\* not found, no task having that id.
C19_Witness ==
    /\ response.op = "delete"
    /\ response.result = "not_found"
    /\ \E d \in deleted : d.id = response.id /\ d.user = response.user
    /\ \A t \in tasks : t.id # response.id

\* The value a field of an update leaves in the task: the supplied one, or
\* the stored one where the request supplies none.
Supplied(arg, stored) == IF arg # None THEN arg ELSE stored

\* C20 as stated: a successful update changes only the fields the request
\* supplies; every other field of the task, updated_at among them, is as it
\* was.
C20_OnlySuppliedFieldsChange ==
    [][LET q == response'
           old == get_task_by_id(tasks, q.id, q.user)
       IN  (q.op = "update" /\ q.result = "ok") =>
              q.task = [old EXCEPT !.title = Supplied(q.args[1], @),
                                   !.description = Supplied(q.args[2], @),
                                   !.priority = Supplied(q.args[3], @)]]_vars

\* C20 amended: a successful update sets the supplied fields among title,
\* description and priority and sets updated_at to the time of the update;
\* id, owner, status, created_at and the fields not supplied are as they
\* were, and no other task is touched.
C20_SuppliedFieldsAndUpdatedAt ==
    [][LET q == response'
           old == get_task_by_id(tasks, q.id, q.user)
       IN  (q.op = "update" /\ q.result = "ok") =>
              /\ q.task = [old EXCEPT !.title = Supplied(q.args[1], @),
                                      !.description = Supplied(q.args[2], @),
                                      !.priority = Supplied(q.args[3], @),
                                      !.updated_at = clock']
              /\ q.task.status = old.status
              /\ q.task.user_id = old.user_id
              /\ q.task.created_at = old.created_at
              /\ clock' > old.updated_at
              /\ tasks' = Commit(tasks, old, q.task)]_vars

\* C20 witness: a task that had been marked complete was then updated with a
\* new title and no description.
C20_Witness ==
    /\ response.op = "update" /\ response.result = "ok"
    /\ response.args[1] = "b" /\ response.args[2] = None
    /\ response.task.title = "b"
    /\ response.task.status \in {"complete", "completed"}
    /\ response.task.updated_at > response.task.created_at + 1

\* No chat request is being handled.
Quiescent == \A r \in Requests : requests[r].pc \in {"unused", "done"}

\* The message rows of the conversations of user u.
RowsOfUser(u) ==
    {i \in DOMAIN messages :
        /\ messages[i].conversation_id \in DOMAIN conversations
        /\ conversations[messages[i].conversation_id].user_id = u}

\* The conversation to which the newest message of user u was added.
LatestConversation(u) ==
    messages[CHOOSE i \in RowsOfUser(u) : \A j \in RowsOfUser(u) : j <= i].conversation_id

\* C21: once the requests that added messages have been answered, the
\* conversation to which a message was added most recently is the first of
\* its owner's conversation list.
C21_LatestConversationFirst ==
    \A u \in Users :
        (Quiescent /\ RowsOfUser(u) # {}) =>
            \A listed \in list_conversations(conversations, u, 0, CONVERSATIONS_LIMIT) :
                listed[1] = LatestConversation(u)

\* The last n rows of a conversation in the order in which they were stored.
LastRows(msgs, c, n) ==
    SubSeq(RowsOf(msgs, c), Len(RowsOf(msgs, c)) - n + 1, Len(RowsOf(msgs, c)))

\* C22: a call of get_recent_context(conversation, n) on a conversation that
\* holds more than n messages returns its n most recent messages, oldest of
\* them first.
C22_RecentContextIsLastN ==
    [][(recent' # recent /\ Len(RowsOf(messages, recent'.conversation)) > recent'.count) =>
          recent'.context = format_for_agent(messages,
                                LastRows(messages, recent'.conversation, recent'.count))]_vars

\* The client has fetched the last page of a conversation: a page shorter than
\* the limit.
LastPage(p) == p.status = 200 /\ Len(p.messages) < p.limit

\* C23: paging through the conversation-history endpoint with successive skip
\* values and a fixed limit yields every stored message of the conversation
\* exactly once, in chronological order: when the last page arrives, the pages
\* fetched are the rows of the conversation.
C23_PagingYieldsEveryMessage ==
    [][(page' # page /\ LastPage(page')) =>
          page'.got = RowsOf(messages', page'.conversation)]_vars

\* The outcomes of a post after which the loop goes on.
Retryable(o) ==
    \/ o.kind \in {"timeout", "request_error"}
    \/ o.kind = "response" /\ o.status \notin {200, 400, 404}

\* C24: invoke_mcp_tool called with retries = r makes at most r + 1 HTTP
\* attempts; it goes on to another attempt only after a 5xx or unexpected
\* status, a timeout or a connection error, never after a 200, 400 or 404;
\* and when it raises, it raises ToolInvocationError.
C24_AtMostRetriesPlusOneAttempts ==
    /\ invocation.posts <= invocation.retries + 1
    /\ (invocation.pc = "loop" /\ invocation.posts > 0) => Retryable(invocation.last)
    /\ invocation.pc = "raised" => invocation.raised = "ToolInvocationError"

\* C26: one add_task tool call by the agent creates at most one task, even
\* when the HTTP call to the tool endpoint times out or fails and is retried.
C26_AgentCallCreatesAtMostOneTask ==
    invocation.caller = "agent" => Len(invocation.created) <= 1

\* The ids of the tasks in the store.
StoredIds(st) == {st.tasks[i].id : i \in DOMAIN st.tasks}

\* The largest id given out so far, 0 if none was.
LastIdGiven(st) ==
    IF StoredIds(st) \cup st.removed = {} THEN 0
    ELSE CHOOSE id \in StoredIds(st) \cup st.removed :
            \A other \in StoredIds(st) \cup st.removed : other <= id

\* C25: in the in-memory task store, after any sequence of add and delete
\* operations all stored tasks have distinct ids, a new task gets the id
\* after the last id given out (the first gets 1), and the id of a deleted
\* task is not the id of any task stored later.
C25_IdsDistinctSequentialNotReused ==
    [][/\ \A i, j \in DOMAIN store'.tasks : i # j => store'.tasks[i].id # store'.tasks[j].id
       /\ StoredIds(store') \cap store'.removed = {}
       /\ Len(store'.tasks) > Len(store.tasks) =>
             store'.tasks[Len(store'.tasks)].id = LastIdGiven(store) + 1]_vars

\* A task was deleted and a task was added after it.
C25_Witness ==
    \E id \in store.removed : \E i \in DOMAIN store.tasks : store.tasks[i].id > id

\* C27: after a chat request has returned 408 AGENT_TIMEOUT, the agent run of
\* that request makes no further tool call.
C27_NoToolCallAfterTimeout ==
    [][\A r \in Requests :
          (requests[r].status = 408 /\ requests'[r].status = 408) =>
              requests'[r].tools_invoked = requests[r].tools_invoked]_vars

\* C28: a chat request that arrives when the cause of an earlier agent
\* initialization failure has been removed is given an agent: initialization
\* is attempted again, without a reload or a restart.
C28_InitializationAttemptedAgain ==
    [][\A r \in Requests :
          (requests[r].pc = "unused" /\ requests'[r].pc # "unused" /\ agent_env_ok) =>
              requests'[r].agent # None]_vars

====
